---- MODULE Spec2Model ----
(***************************************************************************)
(* Model of script.js: the star-field animator registered on               *)
(* DOMContentLoaded (generateStars / render / updateStars / beforeunload), *)
(* and the preloader and mobile navigation set up by the load handler.     *)
(*                                                                         *)
(* Numbers.  Surface sizes and areas are integers (CSS pixels) and        *)
(* Date.now() is an integer number of milliseconds since the epoch, held   *)
(* as timeOrigin plus the milliseconds passed since.  The fractions a star *)
(* holds (radius, opacity, twinkleSpeed) are in thousandths, truncated:    *)
(* 500 is 0.5, 999 is any value in [0.999, 1.0) and 1000 is 1.0; x and y   *)
(* are held by their integer parts.  The computations that give them are   *)
(* carried out bit-exactly in binary64 on multi-word integers:             *)
(* Math.floor(area * starDensity), the fields generateStars computes from  *)
(* the draws of Math.random(), and the twinkle update                      *)
(* 0.5 + |sin((Date.now() * 0.001) / twinkleSpeed) * 0.5|, every operation *)
(* of which is rounded to 53 significant bits, nearest, ties to even       *)
(* (Math.sin gives a double within one unit in the last place of the one   *)
(* nearest to the sine: which one is the engine's choice).                 *)
(***************************************************************************)
EXTENDS Integers, Sequences, FiniteSets

VARIABLES
    \* ---- star field (DOMContentLoaded closure) ----
    canvasFound,      \* document.getElementById("stars-canvas") is an element
    ctxOk,            \* canvas.getContext("2d") gives a context
    phase,            \* "loading" | "absent" | "live" | "unloaded"
    stars,            \* let stars = []
    animationFrameId, \* let animationFrameId; 0 models undefined
    canvasW, canvasH, \* canvas.width / canvas.height (backing bitmap)
    rectW, rectH,     \* rendered size, as getBoundingClientRect() reports it
    pending,          \* handles of the frames requestAnimationFrame holds
    nextHandle,       \* next handle requestAnimationFrame returns
    observing,        \* resizeObserver observes the canvas
    unloadHandler,    \* the beforeunload listener is registered
    rng,              \* state of the generator behind Math.random()
    now,              \* the latest reading of Date.now(), less timeOrigin
    generation,       \* parity of the number of generateStars calls (tag)
    drawn,            \* what the latest render() filled, star by star
    lastOp,           \* the callback that ran last
    \* ---- load handler: preloader and mobile navigation ----
    loaded,           \* the load handler has run
    count,            \* let count = 0
    counterInterval,  \* the setInterval timer is active
    counterText,      \* counterElement.textContent, the number before "%"
    timeline,         \* fade-out timeline: "none" | "running" | "complete"
    timelinesStarted, \* number of gsap.timeline() fade-outs created
    heroStarted,      \* number of initHeroAnimations() calls
    preloaderDisplay, \* preloader.style.display
    bodyOverflow,     \* document.body.style.overflow
    hamburgerActive,  \* hamburger.classList has "active"
    navLinksActive,   \* navLinks.classList has "active"
    pageOp            \* the page callback that ran last

starVars == <<canvasFound, ctxOk, phase, stars, animationFrameId, canvasW, canvasH, rectW, rectH,
              pending, nextHandle, observing, unloadHandler, rng, now,
              generation, drawn, lastOp>>
pageVars == <<loaded, count, counterInterval, counterText, timeline,
              timelinesStarted, heroStarted, preloaderDisplay, bodyOverflow,
              hamburgerActive, navLinksActive, pageOp>>
vars == <<starVars, pageVars>>

(***************************************************************************)
(* Bounds of the model.                                                    *)
(***************************************************************************)
\* rendered widths and heights the layout can take (0: hidden)
Dims == {0, 100, 200}
\* requestAnimationFrame handles handed out before the model stops a run
MaxHandles == 3
\* readings of the clock, in ms after timeOrigin.  At 428424542 the sine
\* of a star of twinkleSpeed 0.875 is at a trough (Math.sin gives -1), at
\* 538220260 that of a star of twinkleSpeed 0.75 is
Clock == {0, 428424542, 538220260}
\* states of the generator behind Math.random()
RandStates == 0 .. 5
\* number of anchors in .nav-links
NumLinks == 2

(***************************************************************************)
(* Settings of the star field.                                             *)
(***************************************************************************)
\* starDensity = 0.00015 as the binary64 the engine holds:
\* 5534023222112865 * 2^-65, the mantissa in base-2048 limbs, lowest first
starDensityLimbs == <<609, 678, 193, 1173, 314>>
starDensityExp == 65
minTwinkleSpeed == 500
maxTwinkleSpeed == 1000
twinkleProbability == 700
allStarsTwinkle == TRUE
\* let target = 100
target == 100

(***************************************************************************)
(* Math.floor(area * starDensity), as binary64 computes it: the exact      *)
(* product, rounded to 53 significant bits (nearest, ties to even), then   *)
(* its integer part.                                                       *)
(***************************************************************************)
RECURSIVE MulLimbs(_, _, _)
\* a * (limbs, base 2048, lowest first) + carry, as limbs
MulLimbs(a, limbs, carry) ==
    IF limbs = <<>>
    THEN IF carry = 0 THEN <<>>
         ELSE <<carry % 2048>> \o MulLimbs(a, <<>>, carry \div 2048)
    ELSE LET t == a * Head(limbs) + carry
         IN  <<t % 2048>> \o MulLimbs(a, Tail(limbs), t \div 2048)

\* a function on 1..n as the sequence of its values
AsSeq(f) == SubSeq(f, 1, Len(f))

Zeros(n) == AsSeq([i \in 1..n |-> 0])

\* the bits of a limb sequence, highest first, 11 to a limb
BitsOf(limbs) ==
    AsSeq([j \in 1..(11 * Len(limbs)) |->
             (limbs[Len(limbs) - ((j - 1) \div 11)]
                 \div (2 ^ (10 - ((j - 1) % 11)))) % 2])

\* a bit string without its leading zeros
StripZeros(bits) ==
    LET ones == {i \in 1..Len(bits) : bits[i] = 1}
    IN  IF ones = {} THEN <<>>
        ELSE SubSeq(bits, CHOOSE i \in ones : \A j \in ones : i <= j,
                    Len(bits))

\* bits + 1 (highest first), one bit longer on carry out
Increment(bits) ==
    LET n     == Len(bits)
        zeros == {i \in 1..n : bits[i] = 0}
    IN  IF zeros = {} THEN <<1>> \o Zeros(n)
        ELSE LET last == CHOOSE i \in zeros : \A j \in zeros : j <= i
             IN  SubSeq(bits, 1, last - 1) \o <<1>> \o Zeros(n - last)

RECURSIVE BitsValue(_)
BitsValue(bits) ==
    IF bits = <<>> THEN 0
    ELSE 2 * BitsValue(SubSeq(bits, 1, Len(bits) - 1)) + bits[Len(bits)]

\* round a bit string to 53 significant bits, nearest, ties to even;
\* the result is the kept bits and the number of bits dropped
Round53(bits) ==
    IF Len(bits) <= 53 THEN [mant |-> bits, dropped |-> 0]
    ELSE LET keep   == SubSeq(bits, 1, 53)
             rest   == SubSeq(bits, 54, Len(bits))
             sticky == \E i \in 2..Len(rest) : rest[i] = 1
             up     == rest[1] = 1 /\ (sticky \/ keep[53] = 1)
         IN  [mant |-> IF up THEN Increment(keep) ELSE keep,
              dropped |-> Len(rest)]

\* Math.floor(area * starDensity)
FloorAreaTimesDensity(area) ==
    LET product == StripZeros(BitsOf(MulLimbs(area, starDensityLimbs, 0)))
        r       == Round53(product)
        intBits == Len(r.mant) + r.dropped - starDensityExp
    IN  IF intBits <= 0 THEN 0
        ELSE BitsValue(SubSeq(r.mant, 1, intBits))

(***************************************************************************)
(* Binary64 arithmetic of the twinkle update.  A non-negative double is    *)
(* held exactly, as the integer value * 2^(11 * FracLimbs) in base-2048    *)
(* limbs, lowest first and without high zero limbs (zero is <<>>); a       *)
(* signed one as [neg, mag].                                               *)
(***************************************************************************)
\* pi * 2^110 (integer part), lowest limb first
PiLimbs == <<220, 368, 394, 611, 844, 388, 90, 1297, 2010, 289, 3>>
\* 2^110 / pi (integer part), lowest limb first
InvPiLimbs == <<1702, 1863, 939, 1986, 595, 261, 626, 878, 1840, 651>>
\* limbs below the binary point
FracLimbs == Len(PiLimbs) - 1
\* the literal 0.001 as the binary64 the engine holds:
\* 1152921504606847 * 2^-60, the mantissa lowest limb first
milliLimbs == <<639, 1933, 1490, 1097, 65>>
milliExp == 60
\* Date.now() when the document was loaded: 1793318400000
\* (2026-10-30T00:00:00Z), lowest limb first
timeOrigin == <<0, 870, 1576, 208>>

One == Zeros(FracLimbs) \o <<1>>

Max(m, n) == IF m >= n THEN m ELSE n

\* the largest element of a non-empty set of integers
Highest(S) == CHOOSE m \in S : \A j \in S : j <= m

\* limb i of a, 0 above its last limb
Limb(a, i) == IF i <= Len(a) THEN a[i] ELSE 0

\* a limb sequence without its high zero limbs
Trim(a) ==
    LET used == {i \in 1..Len(a) : a[i] # 0}
    IN  IF used = {} THEN <<>> ELSE SubSeq(a, 1, Highest(used))

RECURSIVE ToLimbs(_)
\* a natural number as limbs
ToLimbs(n) == IF n = 0 THEN <<>> ELSE <<n % 2048>> \o ToLimbs(n \div 2048)

\* a bit string (highest first) as limbs
BitsToLimbs(bits) ==
    LET n == Len(bits)
    IN  Trim(AsSeq([k \in 1..((n + 10) \div 11) |->
                       BitsValue(SubSeq(bits,
                                        IF n > 11 * k THEN n - 11 * k + 1
                                        ELSE 1,
                                        n - 11 * (k - 1)))]))

\* a + b.  A carry enters limb i when the nearest limb below it whose
\* digit sum is not 2047 (which would pass a carry on) has a sum above it
AddLimbs(a, b) ==
    LET n == Max(Len(a), Len(b)) + 1
        s == AsSeq([i \in 1..n |-> Limb(a, i) + Limb(b, i)])
        carry(i) == LET made == {j \in 1..(i - 1) : s[j] # 2047}
                    IN  IF made # {} /\ s[Highest(made)] > 2047 THEN 1 ELSE 0
    IN  Trim(AsSeq([i \in 1..n |-> (s[i] + carry(i)) % 2048]))

\* a - b, for a >= b.  Limb i lends when the nearest limb below it whose
\* digits differ has the smaller digit in a
SubLimbs(a, b) ==
    LET n == Max(Len(a), Len(b))
        d == AsSeq([i \in 1..n |-> Limb(a, i) - Limb(b, i)])
        borrow(i) == LET made == {j \in 1..(i - 1) : d[j] # 0}
                     IN  IF made # {} /\ d[Highest(made)] < 0 THEN 1 ELSE 0
    IN  Trim(AsSeq([i \in 1..n |-> (d[i] - borrow(i)) % 2048]))

\* -1, 0 or 1 as a is below, equal to or above b
CmpLimbs(a, b) ==
    LET differ == {i \in 1..Max(Len(a), Len(b)) : Limb(a, i) # Limb(b, i)}
    IN  IF differ = {} THEN 0
        ELSE IF Limb(a, Highest(differ)) < Limb(b, Highest(differ)) THEN -1
        ELSE 1

RECURSIVE SumRange(_, _, _)
\* f[lo] + ... + f[hi], for integers
SumRange(f, lo, hi) ==
    IF lo > hi THEN 0
    ELSE IF lo = hi THEN f[lo]
    ELSE SumRange(f, lo, (lo + hi) \div 2)
         + SumRange(f, (lo + hi) \div 2 + 1, hi)

\* the number whose digit in place k is col[k], a sum of digit products
\* below 2^27: the three base-2048 digits of the sums added up in place
Carried(col) ==
    AddLimbs(AddLimbs(AsSeq([k \in 1..Len(col) |-> col[k] % 2048]),
                      <<0>> \o AsSeq([k \in 1..Len(col) |->
                                         (col[k] \div 2048) % 2048])),
             <<0, 0>> \o AsSeq([k \in 1..Len(col) |->
                                   col[k] \div (2048 * 2048)]))

\* the exact product of two limb sequences of at most 24 limbs, from the
\* column sums of the digit products
MulBig(a, b) ==
    IF a = <<>> \/ b = <<>> THEN <<>>
    ELSE Carried(AsSeq([k \in 1..(Len(a) + Len(b)) |->
                          SumRange([i \in Max(1, k + 1 - Len(b))
                                           ..(IF k < Len(a) THEN k ELSE Len(a))
                                      |-> a[i] * b[k + 1 - i]],
                                   Max(1, k + 1 - Len(b)),
                                   IF k < Len(a) THEN k ELSE Len(a))]))

RECURSIVE PowMod(_, _)
\* 2048^e mod d, for d < 2^15
PowMod(e, d) ==
    IF e = 0 THEN 1 % d
    ELSE LET half   == PowMod(e \div 2, d)
             square == (half * half) % d
         IN  IF e % 2 = 1 THEN (square * 2048) % d ELSE square

\* the quotient of a (at most 24 limbs) by a divisor d < 2^15, by short
\* division: the limbs above limb i leave the remainder rem(i), which is
\* carried into limb i
DivSmall(a, d) ==
    LET n == Len(a)
        rem(i) == SumRange([j \in (i + 1)..n |->
                              a[j] * PowMod(j - i - 1, d)], i + 1, n) % d
    IN  Trim(AsSeq([i \in 1..n |-> (rem(i) * 2048 + a[i]) \div d]))

\* the product of two fixed-point values, truncated to the fixed point
MulFixed(a, b) ==
    LET p == MulBig(a, b)
    IN  IF Len(p) <= FracLimbs THEN <<>>
        ELSE SubSeq(p, FracLimbs + 1, Len(p))

\* a value rounded to the nearest double (53 significant bits, ties to
\* even), at the same scale
RoundDouble(limbs) ==
    IF limbs = <<>> THEN <<>>
    ELSE LET r == Round53(StripZeros(BitsOf(limbs)))
         IN  BitsToLimbs(r.mant \o Zeros(r.dropped))

\* Date.now() at t ms after timeOrigin, as limbs
DateNow(t) == AddLimbs(timeOrigin, ToLimbs(t))

\* ms * 0.001 for ms = Date.now(), an integer given as limbs: the exact
\* product with the double 0.001, rounded
Seconds(ms) ==
    LET product == MulBig(ms, milliLimbs)
    IN  IF product = <<>> THEN <<>>
        ELSE RoundDouble(BitsToLimbs(BitsOf(product)
                                     \o Zeros(11 * FracLimbs - milliExp)))

\* (Date.now() * 0.001) / star.twinkleSpeed, rounded; twinkleSpeed is in
\* thousandths and the speeds of the model (multiples of 0.125) are
\* doubles.  The quotient is cut at the fixed point, far below the last
\* bit a double of this size keeps, which leaves the rounding as that of
\* the exact quotient
Angle(ms, twinkleSpeed) ==
    LET seconds == Seconds(ms)
    IN  IF seconds = <<>> THEN <<>>
        ELSE RoundDouble(DivSmall(MulBig(<<1000>>, seconds), twinkleSpeed))

\* the integer part, below 2^33, of a product of two fixed-point values
IntPart(product) ==
    Limb(product, 2 * FracLimbs + 1)
    + 2048 * Limb(product, 2 * FracLimbs + 2)
    + 2048 * 2048 * Limb(product, 2 * FracLimbs + 3)

\* k + 1 if (k + 1) * pi <= x, else k
PutRight(x, k) ==
    IF CmpLimbs(MulBig(ToLimbs(k + 1), PiLimbs), x) <= 0 THEN k + 1 ELSE k

\* the k with k * pi <= x < (k + 1) * pi, for x < 2^32: the integer part
\* of x times the reciprocal of pi, put right where the cut reciprocal
\* left it one short
HalfTurns(x) == PutRight(x, IntPart(MulBig(x, InvPiLimbs)))

\* the smaller of a and b
Smaller(a, b) == IF CmpLimbs(a, b) <= 0 THEN a ELSE b

RECURSIVE SinTerms(_, _, _)
\* the magnitudes of the first n + 1 terms of r - r^3/3! + r^5/5! - ...,
\* terms holding the first ones (r at least) and sq being r^2
SinTerms(terms, sq, n) ==
    LET have == Len(terms)
    IN  IF have > n THEN terms
        ELSE SinTerms(Append(terms,
                             DivSmall(MulFixed(terms[have], sq),
                                      (2 * have) * (2 * have + 1))),
                      sq, n)

RECURSIVE SumLimbs(_, _, _)
\* f[lo] + ... + f[hi], for limb sequences
SumLimbs(f, lo, hi) ==
    IF lo > hi THEN <<>>
    ELSE IF lo = hi THEN f[lo]
    ELSE AddLimbs(SumLimbs(f, lo, (lo + hi) \div 2),
                  SumLimbs(f, (lo + hi) \div 2 + 1, hi))

\* terms[1] - terms[2] + terms[3] - ..., the terms decreasing
Alternating(terms) ==
    SubLimbs(SumLimbs([i \in 1..((Len(terms) + 1) \div 2) |->
                         terms[2 * i - 1]], 1, (Len(terms) + 1) \div 2),
             SumLimbs([i \in 1..(Len(terms) \div 2) |-> terms[2 * i]],
                      1, Len(terms) \div 2))

\* sin r for r in [0, pi / 2]: the series summed over the terms above
\* 2^-110, and at most 1
SinAcute(r) ==
    IF r = <<>> THEN <<>>
    ELSE Smaller(Alternating(SinTerms(<<r>>, MulFixed(r, r), 2 * FracLimbs)),
                 One)

\* sin r for r in [0, pi): that of the smaller of r and pi - r
SinHalfTurn(r) ==
    IF r = <<>> THEN <<>> ELSE SinAcute(Smaller(r, SubLimbs(PiLimbs, r)))

\* 2^j as limbs
Pow2Limbs(j) == Zeros(j \div 11) \o <<2 ^ (j % 11)>>

\* the doubles an engine may return where d is the double nearest to the
\* sine: d, the double below it and the double above it, none above 1.
\* The sine of 0 is 0; a magnitude below 2^-57 is left as it is
Nearby(d) ==
    IF d = <<>> THEN {<<>>}
    ELSE LET bits  == StripZeros(BitsOf(d))
             len   == Len(bits)
             power == \A i \in 2..len : bits[i] = 0
         IN  IF len < 54 THEN {d}
             ELSE {m \in {SubLimbs(d, Pow2Limbs(IF power THEN len - 54
                                                ELSE len - 53)),
                          d,
                          AddLimbs(d, Pow2Limbs(len - 53))} :
                      CmpLimbs(m, One) <= 0}

\* sin x for x = k * pi + r with 0 <= r < pi: (-1)^k * sin r, as the
\* doubles an engine may return
SinTurns(x, k) ==
    {[neg |-> k % 2 = 1, mag |-> m] :
        m \in Nearby(RoundDouble(SinHalfTurn(
                         SubLimbs(x, MulBig(ToLimbs(k), PiLimbs)))))}

\* Math.sin(x) for a double x in [0, 2^32): the set of the doubles an
\* engine may return, which are those within one unit in the last place of
\* the double nearest to the sine (V8 gives the nearest one or a
\* neighbour of it)
Sin(x) ==
    IF x = <<>> THEN {[neg |-> FALSE, mag |-> <<>>]}
    ELSE SinTurns(x, HalfTurns(x))

\* Math.abs
Abs(v) == [v EXCEPT !.neg = FALSE]

\* 0.5 + v * 0.5 for a double v in [-1, 1]: the halving is exact (so
\* Math.abs(v * 0.5) is Math.abs(v) * 0.5), the sum is rounded; the result
\* is in thousandths, truncated: 1000 exactly when the double is 1.0
HalfPlusHalf(v) ==
    LET twice == IF v.neg THEN SubLimbs(One, v.mag) ELSE AddLimbs(One, v.mag)
        bits  == BitsOf(MulBig(<<1000>>, RoundDouble(twice)))
        cut   == 11 * FracLimbs + 1
    IN  IF Len(bits) <= cut THEN 0
        ELSE BitsValue(SubSeq(bits, 1, Len(bits) - cut))

(***************************************************************************)
(* Fractions of the generated stars.                                       *)
(***************************************************************************)
\* the integer part, below 2^33, of a fixed-point value
Floor(v) ==
    Limb(v, FracLimbs + 1)
    + 2048 * Limb(v, FracLimbs + 2)
    + 2048 * 2048 * Limb(v, FracLimbs + 3)

\* a double in thousandths, truncated
Thousandths(v) == Floor(MulBig(<<1000>>, v))

\* the double a decimal literal of n thousandths stands for: the one
\* nearest to n / 1000
Double(n) == RoundDouble(DivSmall(Zeros(FracLimbs) \o ToLimbs(n), 1000))

\* r * a + b for doubles r, a, b >= 0 with r in [0, 1) a multiple of
\* 2^-53: the product rounded, then the sum rounded
MulAdd(r, a, b) == RoundDouble(AddLimbs(RoundDouble(MulFixed(r, a)), b))

(***************************************************************************)
(* Math.random(): a generator over RandStates; a call returns the draw of  *)
(* the state, a double in [0, 1), and advances the state.  The draws are   *)
(* 0, 0.25, 0.5, 0.75 and the largest double below 1, 1 - 2^-53, which     *)
(* the language allows an engine to return.                                *)
(***************************************************************************)
RandDraws ==
    << <<>>,
       Pow2Limbs(11 * FracLimbs - 2),
       Pow2Limbs(11 * FracLimbs - 1),
       AddLimbs(Pow2Limbs(11 * FracLimbs - 1), Pow2Limbs(11 * FracLimbs - 2)),
       SubLimbs(One, Pow2Limbs(11 * FracLimbs - 53)),
       Pow2Limbs(11 * FracLimbs - 1) >>
RandValue(s) == RandDraws[s + 1]
RandNext(s) == (s + 1) % Cardinality(RandStates)

(***************************************************************************)
(* generateStars(width, height).  seed is the generator's state at the     *)
(* call and tag the parity that marks the stars of this call.  The result  *)
(* is the collection and the generator's state after the call.             *)
(***************************************************************************)
\* Math.random() * size, its integer part
Coordinate(r, size) == Floor(RoundDouble(MulBig(r, ToLimbs(size))))

\* Math.random() * 0.05 + 0.5
Radius(r) == Thousandths(MulAdd(r, Double(50), Double(500)))

\* Math.random() * 0.5 + 0.5
Opacity(r) == Thousandths(MulAdd(r, Double(500), Double(500)))

\* minTwinkleSpeed + Math.random() * (maxTwinkleSpeed - minTwinkleSpeed)
TwinkleSpeed(r) ==
    Thousandths(MulAdd(r,
                       RoundDouble(SubLimbs(Double(maxTwinkleSpeed),
                                            Double(minTwinkleSpeed))),
                       Double(minTwinkleSpeed)))

\* the object literal pushed for one star; s is the generator's state
\* before the star's first draw
NewStar(width, height, s, tag) ==
    LET drawsTwinkle  == ~allStarsTwinkle
        shouldTwinkle == \/ allStarsTwinkle
                         \/ CmpLimbs(RandValue(s),
                                     Double(twinkleProbability)) < 0
        s1 == IF drawsTwinkle THEN RandNext(s) ELSE s
        s2 == RandNext(s1)
        s3 == RandNext(s2)
        s4 == RandNext(s3)
        s5 == RandNext(s4)
    IN  [star |->
            [x            |-> Coordinate(RandValue(s1), width),
             y            |-> Coordinate(RandValue(s2), height),
             radius       |-> Radius(RandValue(s3)),
             opacity      |-> Opacity(RandValue(s4)),
             twinkleSpeed |-> IF shouldTwinkle
                              THEN TwinkleSpeed(RandValue(s5))
                              ELSE 0,   \* null
             gen          |-> tag],
         rng |-> IF shouldTwinkle THEN RandNext(s5) ELSE s5]

\* newStars.push(n.star), the generator left in the state n.rng
Pushed(acc, n) == [stars |-> Append(acc.stars, n.star), rng |-> n.rng]

RECURSIVE GenerateLoop(_, _, _, _, _, _)
\* for (let i = 0; i < numStars; i++) newStars.push({...})
GenerateLoop(i, numStars, width, height, acc, tag) ==
    IF i >= numStars THEN acc
    ELSE GenerateLoop(i + 1, numStars, width, height,
                      Pushed(acc, NewStar(width, height, acc.rng, tag)), tag)

GenerateStars(width, height, seed, tag) ==
    LET area     == width * height
        numStars == FloorAreaTimesDensity(area)
    IN  GenerateLoop(0, numStars, width, height,
                     [stars |-> <<>>, rng |-> seed], tag)

\* generateStars tabulated over the sizes, generator states and tags of the
\* model
generatedStars ==
    [width \in Dims, height \in Dims, seed \in RandStates, tag \in {0, 1} |->
        GenerateStars(width, height, seed, tag)]

(***************************************************************************)
(* render(): one frame.                                                    *)
(***************************************************************************)
\* variant of TwinkleOpacity that leaves out Math.abs
TwinkleOpacityNoAbs(ms, twinkleSpeed) ==
    {HalfPlusHalf(v) : v \in Sin(Angle(ms, twinkleSpeed))}

\* 0.5 + Math.abs(Math.sin((Date.now() * 0.001) / star.twinkleSpeed) * 0.5)
\* ms is Date.now() as limbs and twinkleSpeed is in thousandths; the
\* result is the set of the values the engine's Math.sin allows
TwinkleOpacity(ms, twinkleSpeed) ==
    {HalfPlusHalf(Abs(v)) : v \in Sin(Angle(ms, twinkleSpeed))}

\* the twinkle speeds generateStars can give a star.  Those of the
\* model's draws are whole thousandths: 0.5, 0.625, 0.75, 0.875 and 1.0
TwinkleSpeeds == {TwinkleSpeed(RandValue(s)) : s \in RandStates}

\* the twinkle update tabulated over the clock readings and speeds of the
\* model
twinkleOpacities ==
    [t \in Clock, twinkleSpeed \in TwinkleSpeeds |->
        TwinkleOpacity(DateNow(t), twinkleSpeed)]

\* the star after its twinkle update, Date.now() reading t: the set of
\* the outcomes
Twinkled(star, t) ==
    IF star.twinkleSpeed # 0
    THEN {[star EXCEPT !.opacity = o] :
             o \in twinkleOpacities[t, star.twinkleSpeed]}
    ELSE {star}

RECURSIVE Readings(_, _)
\* n readings of Date.now() in a row, none before from and none before
\* the one it follows
Readings(n, from) ==
    IF n = 0 THEN {<<>>}
    ELSE UNION {{<<t>> \o rest : rest \in Readings(n - 1, t)} :
                   t \in {c \in Clock : c >= from}}

\* the latest reading after the readings ts
Latest(from, ts) == IF ts = <<>> THEN from ELSE ts[Len(ts)]

RECURSIVE Updated(_, _, _)
\* the first n stars of ss after their twinkle updates, ts[i] being the
\* reading of Date.now() in the update of star i: the set of the outcomes
Updated(ss, ts, n) ==
    IF n = 0 THEN {<<>>}
    ELSE {Append(first, star) : first \in Updated(ss, ts, n - 1),
                                star \in Twinkled(ss[n], ts[n])}

\* variant of RenderFrame that updates every star's opacity before it
\* fills the star
TwinkleThenDraw(ss, ts) ==
    {[drawn |-> [i \in 1..Len(ss) |->
                    [opacity |-> new[i].opacity, gen |-> ss[i].gen]],
      stars |-> new] : new \in Updated(ss, ts, Len(ss))}

\* stars.forEach: fill the star with its current opacity, then update it
\* with a reading of Date.now() of its own (ts[i] for star i).  The result
\* is the set of the outcomes: what was drawn and the collection after
RenderFrame(ss, ts) ==
    {[drawn |-> [i \in 1..Len(ss) |->
                    [opacity |-> ss[i].opacity, gen |-> ss[i].gen]],
      stars |-> new] : new \in Updated(ss, ts, Len(ss))}

(***************************************************************************)
(* updateStars(): the resize handler, also called once at start-up.        *)
(***************************************************************************)
\* variant of IsHidden that returns only when both dimensions are 0
IsHiddenBoth(width, height) == width = 0 /\ height = 0

\* if (width === 0 || height === 0) return
IsHidden(width, height) == width = 0 \/ height = 0

\* variant of LoopNotRunning that starts a render loop on every resize
LoopNeverRunning(id) == TRUE

\* if (!animationFrameId): no frame was requested so far
LoopNotRunning(id) == id = 0

\* variant of ReplaceStars that pushes the new stars onto the collection
\* in use
AppendStars(old, new) == old \o new

\* stars = generateStars(width, height): the collection is replaced whole
ReplaceStars(old, new) == new

\* the number of stars updateStars(width, height) has render() update,
\* each with one reading of Date.now()
UpdatesIn(width, height) ==
    IF IsHidden(width, height) \/ ~LoopNotRunning(animationFrameId) THEN 0
    ELSE Len(ReplaceStars(stars,
                          generatedStars[width, height, rng,
                                         1 - generation].stars))

\* ts are the readings of Date.now() during the call
UpdateStars(width, height, ts) ==
    IF IsHidden(width, height)
    THEN /\ ts = <<>>
         /\ UNCHANGED <<stars, canvasW, canvasH, animationFrameId, pending,
                        nextHandle, rng, generation, drawn>>
    ELSE \E g \in {generatedStars[width, height, rng, 1 - generation]} :
         LET fresh == ReplaceStars(stars, g.stars)
         IN  /\ canvasW' = width
             /\ canvasH' = height
             /\ rng' = g.rng
             /\ generation' = 1 - generation
             /\ IF LoopNotRunning(animationFrameId)
                THEN \* render(): draw, twinkle, request the next frame
                     /\ Len(ts) = Len(fresh)
                     /\ \E f \in RenderFrame(fresh, ts) :
                           /\ stars' = f.stars
                           /\ drawn' = f.drawn
                     /\ animationFrameId' = nextHandle
                     /\ pending' = pending \cup {nextHandle}
                     /\ nextHandle' = nextHandle + 1
                ELSE /\ ts = <<>>
                     /\ stars' = fresh
                     /\ UNCHANGED <<drawn, animationFrameId, pending,
                                    nextHandle>>

(***************************************************************************)
(* The DOMContentLoaded handler.                                           *)
(***************************************************************************)
\* variant of CanInit that does not test the 2D context
CanInitWithoutContext(found, ctx) == found

\* if (!canvas) return;  if (!ctx) return;
CanInit(found, ctx) == found /\ ctx

\* ts are the readings of Date.now() during the handler
DOMContentLoaded(ts) ==
    /\ phase = "loading"
    /\ lastOp' = "DOMContentLoaded"
    /\ now' = Latest(now, ts)
    /\ UNCHANGED <<canvasFound, ctxOk, rectW, rectH>>
    /\ IF CanInit(canvasFound, ctxOk)
       THEN /\ phase' = "live"
            /\ UpdateStars(rectW, rectH, ts)
            /\ observing' = TRUE
            /\ unloadHandler' = TRUE
       ELSE /\ phase' = "absent"
            /\ ts = <<>>
            /\ UNCHANGED <<stars, canvasW, canvasH, animationFrameId, pending,
                           nextHandle, rng, generation, drawn, observing,
                           unloadHandler>>
    /\ UNCHANGED pageVars

\* the frame callback requestAnimationFrame(render) scheduled under handle
\* id; ts are the readings of Date.now() during the frame, one for each
\* star
Frame(id, ts) ==
    /\ id \in pending
    /\ nextHandle <= MaxHandles
    /\ ts \in Readings(Len(stars), now)
    /\ now' = Latest(now, ts)
    /\ \E f \in RenderFrame(stars, ts) :
          /\ stars' = f.stars
          /\ drawn' = f.drawn
    /\ animationFrameId' = nextHandle
    /\ pending' = (pending \ {id}) \cup {nextHandle}
    /\ nextHandle' = nextHandle + 1
    /\ lastOp' = "frame"
    /\ UNCHANGED <<canvasFound, ctxOk, phase, canvasW, canvasH, rectW, rectH,
                   observing, unloadHandler, rng, generation>>
    /\ UNCHANGED pageVars

\* the ResizeObserver callback, delivered with the canvas laid out at
\* width x height; ts are the readings of Date.now() during the callback
ResizeNotify(width, height, ts) ==
    /\ observing
    /\ ts \in Readings(UpdatesIn(width, height), now)
    /\ now' = Latest(now, ts)
    /\ rectW' = width
    /\ rectH' = height
    /\ UpdateStars(width, height, ts)
    /\ lastOp' = "resize"
    /\ UNCHANGED <<canvasFound, ctxOk, phase, observing, unloadHandler>>
    /\ UNCHANGED pageVars

\* variant of CancelAnimationFrame that cancels no frame
CancelNothing(frames, id) == frames

\* cancelAnimationFrame(id)
CancelAnimationFrame(frames, id) == frames \ {id}

\* the beforeunload listener
BeforeUnload ==
    /\ unloadHandler
    /\ phase = "live"
    /\ pending' = CancelAnimationFrame(pending, animationFrameId)
    /\ observing' = FALSE
    /\ phase' = "unloaded"
    /\ lastOp' = "beforeunload"
    /\ UNCHANGED <<canvasFound, ctxOk, stars, animationFrameId, canvasW,
                   canvasH, rectW, rectH, nextHandle, unloadHandler, rng, now,
                   generation, drawn>>
    /\ UNCHANGED pageVars

(***************************************************************************)
(* The load handler: initPreloader() and initMobileNav().                  *)
(***************************************************************************)
Load ==
    /\ ~loaded
    /\ loaded' = TRUE
    /\ count' = 0
    /\ counterInterval' = TRUE
    /\ pageOp' = "load"
    /\ UNCHANGED <<counterText, timeline, timelinesStarted, heroStarted,
                   preloaderDisplay, bodyOverflow, hamburgerActive,
                   navLinksActive>>
    /\ UNCHANGED starVars

\* variant of ClearInterval that leaves the timer running
KeepInterval(active) == active

\* clearInterval(counterInterval)
ClearInterval(active) == FALSE

\* the setInterval callback
IntervalTick ==
    /\ counterInterval
    /\ pageOp' = "interval"
    /\ IF count >= target
       THEN /\ counterInterval' = ClearInterval(counterInterval)
            /\ timeline' = "running"
            /\ timelinesStarted' = timelinesStarted + 1
            /\ UNCHANGED <<count, counterText>>
       ELSE /\ count' = count + 1
            /\ counterText' = count + 1
            /\ UNCHANGED <<counterInterval, timeline, timelinesStarted>>
    /\ UNCHANGED <<loaded, heroStarted, preloaderDisplay, bodyOverflow,
                   hamburgerActive, navLinksActive>>
    /\ UNCHANGED starVars

\* onComplete of the last tween of the fade-out timeline
TimelineComplete ==
    /\ timeline = "running"
    /\ timeline' = "complete"
    /\ preloaderDisplay' = "none"
    /\ bodyOverflow' = "visible"
    /\ heroStarted' = heroStarted + 1
    /\ pageOp' = "onComplete"
    /\ UNCHANGED <<loaded, count, counterInterval, counterText,
                   timelinesStarted, hamburgerActive, navLinksActive>>
    /\ UNCHANGED starVars

\* classList.toggle("active")
Toggle(has) == ~has

\* variant of ToggleNavLinks that leaves the nav-links list as it is
NavUntouched(has) == has

\* navLinks.classList.toggle("active")
ToggleNavLinks(has) == Toggle(has)

\* click on .hamburger-menu
HamburgerClick ==
    /\ loaded
    /\ hamburgerActive' = Toggle(hamburgerActive)
    /\ navLinksActive' = ToggleNavLinks(navLinksActive)
    /\ pageOp' = "hamburger"
    /\ UNCHANGED <<loaded, count, counterInterval, counterText, timeline,
                   timelinesStarted, heroStarted, preloaderDisplay,
                   bodyOverflow>>
    /\ UNCHANGED starVars

\* click on the link-th anchor of .nav-links
LinkClick(link) ==
    /\ loaded
    /\ hamburgerActive' = FALSE
    /\ navLinksActive' = FALSE
    /\ pageOp' = "link"
    /\ UNCHANGED <<loaded, count, counterInterval, counterText, timeline,
                   timelinesStarted, heroStarted, preloaderDisplay,
                   bodyOverflow>>
    /\ UNCHANGED starVars

(***************************************************************************)
(* Initial state and specifications.                                       *)
(***************************************************************************)
InitStars ==
    /\ canvasFound \in BOOLEAN
    /\ ctxOk \in BOOLEAN
    /\ phase = "loading"
    /\ stars = <<>>
    /\ animationFrameId = 0
    /\ canvasW = 300          \* a canvas element is 300 x 150 by default
    /\ canvasH = 150
    /\ rectW \in Dims
    /\ rectH \in Dims
    /\ pending = {}
    /\ nextHandle = 1
    /\ observing = FALSE
    /\ unloadHandler = FALSE
    /\ rng \in RandStates
    /\ now = 0
    /\ generation = 0
    /\ drawn = <<>>
    /\ lastOp = "none"

InitPage ==
    /\ loaded = FALSE
    /\ count = 0
    /\ counterInterval = FALSE
    /\ counterText = 0
    /\ timeline = "none"
    /\ timelinesStarted = 0
    /\ heroStarted = 0
    /\ preloaderDisplay = "block"
    /\ bodyOverflow = "hidden"
    /\ hamburgerActive = FALSE
    /\ navLinksActive = FALSE
    /\ pageOp = "none"

Init == InitStars /\ InitPage

\* the star field
Next ==
    \/ \E ts \in Readings(IF CanInit(canvasFound, ctxOk)
                            THEN UpdatesIn(rectW, rectH) ELSE 0, now) :
          DOMContentLoaded(ts)
    \/ \E id \in pending : \E ts \in Readings(Len(stars), now) :
          Frame(id, ts)
    \/ \E width \in Dims, height \in Dims :
          \E ts \in Readings(UpdatesIn(width, height), now) :
             ResizeNotify(width, height, ts)
    \/ BeforeUnload

Spec == Init /\ [][Next]_vars

\* the page: preloader and mobile navigation
NextPage ==
    \/ Load
    \/ IntervalTick
    \/ TimelineComplete
    \/ HamburgerClick
    \/ \E link \in 1..NumLinks : LinkClick(link)

SpecPage == Init /\ [][NextPage]_vars

(***************************************************************************)
(* Properties.                                                             *)
(***************************************************************************)
Opacities(ss) == [i \in 1..Len(ss) |-> ss[i].opacity]
OneGeneration(ss) == \A i \in 1..Len(ss), j \in 1..Len(ss) : ss[i].gen = ss[j].gen
Animating == animationFrameId # 0
\* the collection in use was generated after the latest frame was drawn
NotYetDrawn ==
    stars # <<>> /\ (drawn = <<>> \/ drawn[1].gen # stars[1].gen)

\* C1: at most one render frame is ever outstanding: none while no frame was
\* requested (Idle), which lasts exactly as long as every observed size was
\* zero in a dimension, and exactly one, the frame animationFrameId names,
\* from the first non-zero resize until teardown; a resize while Animating
\* starts no second loop.
C1_SingleRenderLoop ==
    /\ Cardinality(pending) <= 1
    /\ ~Animating => pending = {}
    /\ (phase = "live" /\ ~Animating) => (rectW = 0 \/ rectH = 0)
    /\ (phase = "live" /\ (stars # <<>> \/ drawn # <<>>)) => Animating
    /\ (phase = "live" /\ Animating) => pending = {animationFrameId}

\* a non-zero resize handled while Animating, after a frame was rendered
C1_Witness ==
    /\ lastOp = "resize"
    /\ rectW # 0 /\ rectH # 0
    /\ nextHandle >= 3
    /\ pending = {animationFrameId}
    /\ NotYetDrawn

\* C2: a call of updateStars that observes width 0 or height 0 (the call at
\* start-up or a resize notification, Idle or Animating) leaves the star
\* collection, the backing bitmap size, animationFrameId and the scheduled
\* frames as they were, and draws nothing.
C2_HiddenResizeChangesNothing ==
    [][(lastOp' \in {"resize", "DOMContentLoaded"} /\ (rectW' = 0 \/ rectH' = 0))
        => UNCHANGED <<stars, canvasW, canvasH, animationFrameId, pending,
                       nextHandle, drawn, generation, rng>>]_vars

\* a resize to width 0 and a non-zero height was handled while Animating
C2_Witness ==
    /\ lastOp = "resize"
    /\ rectW = 0 /\ rectH # 0
    /\ Animating
    /\ stars # <<>>
    /\ canvasW # 0

\* C3: once beforeunload was handled, no frame is scheduled and the resize
\* observation is off, and no render and no resize handler has run since.
C3_NothingAfterTeardown ==
    phase = "unloaded" =>
        /\ pending = {}
        /\ ~observing
        /\ lastOp = "beforeunload"

\* beforeunload was handled while Animating, frames having been rendered
C3_Witness ==
    /\ phase = "unloaded"
    /\ Animating
    /\ nextHandle >= 3
    /\ stars # <<>>

\* C4: the collection in use holds exactly floor(width * height * 0.00015)
\* stars for the size the latest non-zero resize observed.
C4_ExactStarCount ==
    Animating => Len(stars) = (canvasW * canvasH * 15) \div 100000

\* C5: without the canvas element or without its 2D context nothing is set
\* up: no stars, no frame, no resize observation, no beforeunload listener.
C5_NoInitWithoutSurface ==
    (~canvasFound \/ ~ctxOk) =>
        /\ stars = <<>>
        /\ drawn = <<>>
        /\ animationFrameId = 0
        /\ pending = {}
        /\ nextHandle = 1
        /\ ~observing
        /\ ~unloadHandler
        /\ phase \in {"loading", "absent"}

\* DOMContentLoaded was handled with the canvas found and no 2D context
C5_Witness ==
    /\ lastOp = "DOMContentLoaded"
    /\ canvasFound
    /\ ~ctxOk
    /\ rectW # 0 /\ rectH # 0

\* C6, as claimed: every star's opacity is in [0.5, 1.0).
C6_OpacityBelowOne ==
    \A i \in 1..Len(stars) : 500 <= stars[i].opacity /\ stars[i].opacity < 1000

\* C6, amended: every star's opacity, and every opacity drawn, is in the
\* closed range [0.5, 1.0], at generation as after a twinkle update, and
\* every twinkle speed is in [0.5, 1.0].
C6_OpacityAtMostOne ==
    /\ \A i \in 1..Len(stars) :
          /\ 500 <= stars[i].opacity /\ stars[i].opacity <= 1000
          /\ 500 <= stars[i].twinkleSpeed /\ stars[i].twinkleSpeed <= 1000
    /\ \A i \in 1..Len(drawn) :
          500 <= drawn[i].opacity /\ drawn[i].opacity <= 1000

\* a frame's twinkle update wrote the opacity 1.0 to a star that the
\* frame had drawn with an opacity below 1.0
C6_Witness ==
    /\ lastOp = "frame"
    /\ \E i \in 1..Len(stars) :
          stars[i].opacity = 1000 /\ drawn[i].opacity < 1000

\* C7: a frame fills every star with the opacity the star had when the
\* frame began: the collection's value before a scheduled frame, and the
\* generation-time value in the render that updateStars calls itself.
C7_DrawnBeforeTwinkle ==
    [][/\ lastOp' = "frame" => Opacities(drawn') = Opacities(stars)
       /\ (lastOp' \in {"resize", "DOMContentLoaded"} /\ drawn' # drawn)
            => Opacities(drawn') =
               Opacities(generatedStars[rectW', rectH', rng,
                                        generation'].stars)
      ]_vars

\* a scheduled frame drew a star with an opacity other than the one the
\* frame then gave it
C7_Witness ==
    /\ lastOp = "frame"
    /\ nextHandle >= 3
    /\ \E i \in 1..Len(stars) : drawn[i].opacity # stars[i].opacity

\* C8: the collection in use, and the collection a frame drew, is one whole
\* result of generateStars: all its stars carry the tag of one call, it has
\* the size generateStars gives for the bitmap size, and a frame draws as
\* many stars as the collection holds, all of the collection's generation.
C8_WholeCollection ==
    /\ OneGeneration(stars)
    /\ OneGeneration(drawn)
    /\ \A i \in 1..Len(stars) : stars[i].gen = generation
    /\ Animating => Len(stars) = FloorAreaTimesDensity(canvasW * canvasH)
    /\ lastOp = "frame" =>
          /\ Len(drawn) = Len(stars)
          /\ \A i \in 1..Len(drawn) : drawn[i].gen = generation

\* a frame drew the collection that a second generateStars call produced
C8_Witness ==
    /\ lastOp = "frame"
    /\ generation = 0
    /\ Len(drawn) >= 2

\* state part of C9
C9_PreloaderInv ==
    /\ count \in 0..target
    /\ timelinesStarted <= 1
    /\ heroStarted <= 1
    /\ timelinesStarted = 1 => (count = target /\ ~counterInterval)
    /\ (loaded /\ timelinesStarted = 0) => counterInterval
    /\ timeline # "none" <=> timelinesStarted = 1
    /\ heroStarted = 1 <=> timeline = "complete"
    /\ heroStarted = 0 => (preloaderDisplay = "block" /\ bodyOverflow = "hidden")
    /\ heroStarted = 1 => (preloaderDisplay = "none" /\ bodyOverflow = "visible")

\* step part of C9
C9_PreloaderStep ==
    /\ count' # count => count' = count + 1
    /\ (pageOp' = "interval" /\ count < target)
          => (count' = count + 1 /\ counterText' = count' /\ counterInterval')
    /\ (pageOp' = "interval" /\ count >= target)
          => (~counterInterval' /\ timelinesStarted' = timelinesStarted + 1)
    /\ heroStarted' # heroStarted => (timeline = "running" /\ pageOp' = "onComplete")

\* C9: the preloader counter stays in 0 .. target and a timer tick that
\* finds it below target adds exactly 1; the tick that finds it at target
\* clears the interval and starts the fade-out timeline, which is therefore
\* started once; the hero animations start, the preloader is hidden and
\* scrolling is enabled only when that timeline completes, and once.
C9_PreloaderOnce == []C9_PreloaderInv /\ [][C9_PreloaderStep]_vars

\* the fade-out completed after the counter reached target
C9_Witness ==
    /\ heroStarted = 1
    /\ count = target
    /\ pageOp = "onComplete"

\* C10: from a start with neither class set, the hamburger has "active"
\* exactly when the nav-links list has it, and right after a click on a nav
\* link neither has it.
C10_NavClassesAgree ==
    /\ hamburgerActive = navLinksActive
    /\ pageOp = "link" => (~hamburgerActive /\ ~navLinksActive)

\* a hamburger click opened the menu after the preloader had finished
C10_Witness ==
    /\ pageOp = "hamburger"
    /\ hamburgerActive
    /\ navLinksActive
    /\ timeline = "complete"
====
